---------------------------- MODULE Spec2Model ----------------------------
(***************************************************************************)
(* State-machine model of scripts/fetch_today_kirchenblatt.py: the         *)
(* extraction of today's Mass announcements from the text of a parish      *)
(* bulletin.                                                               *)
(*                                                                         *)
(* Text is modelled at the level of characters: a Python str is a          *)
(* sequence of one-character strings.  The few non-ASCII characters the    *)
(* source names are written as tokens ("a_uml" for a-umlaut, "endash" for  *)
(* the en dash, ...); each such token stands for ONE character.            *)
(***************************************************************************)
EXTENDS Integers, Sequences, FiniteSets, TLC

(***************************************************************************)
(* Characters and character classes of Python's re module                  *)
(***************************************************************************)
Digits ==
    <<"0","1","2","3","4","5","6","7","8","9">>

UpperAscii ==
    <<"A","B","C","D","E","F","G","H","I","J","K","L","M",
      "N","O","P","Q","R","S","T","U","V","W","X","Y","Z">>

LowerAscii ==
    <<"a","b","c","d","e","f","g","h","i","j","k","l","m",
      "n","o","p","q","r","s","t","u","v","w","x","y","z">>

UpperUmlaut ==
    <<"A_uml","O_uml","U_uml">>

LowerUmlaut ==
    <<"a_uml","o_uml","u_uml">>

Range(f) ==
    {f[k] : k \in DOMAIN f}

DigitSet ==
    Range(Digits)

AsciiLetterSet ==
    Range(UpperAscii) \cup Range(LowerAscii)

UmlautSet ==
    Range(UpperUmlaut) \cup Range(LowerUmlaut)

\* \w of a str pattern: letters (the umlauts and the sharp s included), digits, "_"
WordSet ==
    AsciiLetterSet \cup UmlautSet \cup DigitSet \cup {"eszett", "_"}

\* \s; _norm has already turned every run of blanks and tabs into one blank
SpaceSet ==
    {" "}

IsDigit(c) ==
    c \in DigitSet

IsSpace(c) ==
    c \in SpaceSet

IsWord(c) ==
    c \in WordSet

\* the folding re.I compares under
LowerMap ==
    [c \in Range(UpperAscii) \cup Range(UpperUmlaut) |->
        IF c \in Range(UpperAscii)
        THEN LowerAscii[CHOOSE k \in DOMAIN UpperAscii : UpperAscii[k] = c]
        ELSE LowerUmlaut[CHOOSE k \in DOMAIN UpperUmlaut : UpperUmlaut[k] = c]]

Lower(c) ==
    IF c \in DOMAIN LowerMap THEN LowerMap[c] ELSE c

LowerStr(s) ==
    [k \in 1..Len(s) |-> Lower(s[k])]

\* Python's None where a str may stand: a tuple no str equals
None ==
    <<"<None>">>

(***************************************************************************)
(* str helpers                                                             *)
(***************************************************************************)
\* s[p-1:p-1+len(lit)] == lit
LitAt(s, p, lit) ==
    /\ p >= 1
    /\ p + Len(lit) - 1 <= Len(s)
    /\ \A k \in 1..Len(lit) : s[p + k - 1] = lit[k]

\* the same under re.I
LitAtI(s, p, lit) ==
    /\ p >= 1
    /\ p + Len(lit) - 1 <= Len(s)
    /\ \A k \in 1..Len(lit) : Lower(s[p + k - 1]) = Lower(lit[k])

\* \b between s[p-1] and s[p] (p in 1..Len(s)+1)
WordBoundary(s, p) ==
    LET before == p >= 2 /\ p - 1 <= Len(s) /\ IsWord(s[p - 1])
        after  == p >= 1 /\ p <= Len(s) /\ IsWord(s[p])
    IN  before # after

\* length of the longest run of characters of class cls starting at s[p]
RECURSIVE RunLen(_, _, _)
RunLen(s, p, cls) ==
    IF p <= Len(s) /\ s[p] \in cls THEN 1 + RunLen(s, p + 1, cls) ELSE 0

\* str.strip(chars)
RECURSIVE LStrip(_, _)
LStrip(s, chars) ==
    IF s # <<>> /\ Head(s) \in chars THEN LStrip(Tail(s), chars) ELSE s

RECURSIVE RStrip(_, _)
RStrip(s, chars) ==
    IF s # <<>> /\ s[Len(s)] \in chars
    THEN RStrip(SubSeq(s, 1, Len(s) - 1), chars)
    ELSE s

Strip(s, chars) ==
    RStrip(LStrip(s, chars), chars)

DigitVal(c) ==
    (CHOOSE k \in DOMAIN Digits : Digits[k] = c) - 1

\* int(s) of a str of decimal digits
RECURSIVE ToInt(_)
ToInt(s) ==
    IF s = <<>> THEN 0
    ELSE 10 * ToInt(SubSeq(s, 1, Len(s) - 1)) + DigitVal(s[Len(s)])

\* str(n) of an int n >= 0
RECURSIVE IntToStr(_)
IntToStr(n) ==
    IF n < 10 THEN <<Digits[n + 1]>>
    ELSE IntToStr(n \div 10) \o <<Digits[(n % 10) + 1]>>

\* format(n, "0{w}d")
RECURSIVE ZeroPad(_, _)
ZeroPad(s, w) ==
    IF Len(s) >= w THEN s ELSE ZeroPad(<<"0">> \o s, w)

Min(S) ==
    CHOOSE x \in S : \A y \in S : x <= y

Max(S) ==
    CHOOSE x \in S : \A y \in S : x >= y

(***************************************************************************)
(* LINE_RE: <weekday> \s+ DATE_RE \s+ TIME_RE \s+ (?P<after>.+)$           *)
(*                                                                         *)
(* Each operator below matches one tail of the pattern at position p and   *)
(* returns the groups of Python's match: the alternatives are tried in     *)
(* the order the backtracking matcher tries them (greedy first), and the   *)
(* first that lets the rest of the pattern match is the result.            *)
(***************************************************************************)
WEEKDAYS ==
    << <<"M","o">>, <<"D","i">>, <<"M","i">>, <<"D","o">>, <<"F","r">>,
       <<"S","a">>, <<"S","o">>,
       <<"M","o","n","t","a","g">>, <<"D","i","e","n","s","t","a","g">>,
       <<"M","i","t","t","w","o","c","h">>,
       <<"D","o","n","n","e","r","s","t","a","g">>,
       <<"F","r","e","i","t","a","g">>, <<"S","a","m","s","t","a","g">>,
       <<"S","o","n","n","t","a","g">> >>

\* the groupdict of a match; ok = FALSE is "no match" (m is None)
NoMatch ==
    [ok |-> FALSE, wd |-> None, d |-> None, mon |-> None, mon_name |-> None,
     y |-> None, h |-> None, m |-> None, after |-> None]

\* alternation: the first alternative if the pattern matches with it, else
\* the second
OrElse(first, second) ==
    IF first.ok THEN first ELSE second

\* a group set in the match of the rest of the pattern, if the rest matched
SetTime(rest, h, mi) ==
    IF rest.ok THEN [rest EXCEPT !.h = h, !.m = mi] ELSE NoMatch

SetYear(rest, y) ==
    IF rest.ok THEN [rest EXCEPT !.y = y] ELSE NoMatch

SetMon(rest, mon) ==
    IF rest.ok THEN [rest EXCEPT !.mon = mon] ELSE NoMatch

SetMonName(rest, name) ==
    IF rest.ok THEN [rest EXCEPT !.mon_name = name] ELSE NoMatch

SetDay(rest, d) ==
    IF rest.ok THEN [rest EXCEPT !.d = d] ELSE NoMatch

SetWeekday(rest, wd) ==
    IF rest.ok THEN [rest EXCEPT !.wd = wd] ELSE NoMatch

\* \s+(?P<after>.+)$ : the blanks are greedy but leave .+ one character
RE_After(s, p) ==
    LET r == RunLen(s, p, SpaceSet)
        k == IF p + r <= Len(s) THEN r ELSE r - 1
    IN  IF k >= 1 /\ p + k <= Len(s)
        THEN [NoMatch EXCEPT !.ok = TRUE, !.after = SubSeq(s, p + k, Len(s))]
        ELSE NoMatch

\* (?:\s*Uhr)? then the rest: with the unit marker first, then without
RE_Uhr(s, p) ==
    LET r == RunLen(s, p, SpaceSet)
    IN  OrElse(IF LitAt(s, p + r, <<"U","h","r">>)
               THEN RE_After(s, p + r + 3)
               ELSE NoMatch,
               RE_After(s, p))

\* (?P<h>\d{n})[.:](?P<m>\d{2}) with n digits of hour, then the rest
TimeWith(s, p, n) ==
    IF /\ p + n + 2 <= Len(s)
       /\ \A k \in p..(p + n - 1) : IsDigit(s[k])
       /\ s[p + n] \in {".", ":"}
       /\ IsDigit(s[p + n + 1])
       /\ IsDigit(s[p + n + 2])
    THEN SetTime(RE_Uhr(s, p + n + 3), SubSeq(s, p, p + n - 1),
                 SubSeq(s, p + n + 1, p + n + 2))
    ELSE NoMatch

\* TIME_RE = (?P<h>\d{1,2})[.:](?P<m>\d{2})(?:\s*Uhr)? and the rest
TIME_RE(s, p) ==
    OrElse(TimeWith(s, p, 2), TimeWith(s, p, 1))

\* \.?\s*(?P<y>\d{4})? then \s+ TIME_RE ...
\*   with group y: \s* takes every blank, four digits, then \s+ takes every
\*     blank (a digit must follow them);
\*   without: \s* gives one blank back to \s+ and the time follows the blanks
RE_Year(s, p) ==
    LET p1 == IF p <= Len(s) /\ s[p] = "." THEN p + 1 ELSE p
        q  == p1 + RunLen(s, p1, SpaceSet)
        q2 == q + 4 + RunLen(s, q + 4, SpaceSet)
    IN  OrElse(IF /\ q + 3 <= Len(s)
                  /\ \A k \in q..(q + 3) : IsDigit(s[k])
                  /\ q2 > q + 4
               THEN SetYear(TIME_RE(s, q2), SubSeq(s, q, q + 3))
               ELSE NoMatch,
               IF q > p1 THEN TIME_RE(s, q) ELSE NoMatch)

\* (?P<mon>\d{n})[.] then the rest
MonWith(s, p, n) ==
    IF /\ p + n <= Len(s)
       /\ \A k \in p..(p + n - 1) : IsDigit(s[k])
       /\ s[p + n] = "."
    THEN SetMon(RE_Year(s, p + n + 1), SubSeq(s, p, p + n - 1))
    ELSE NoMatch

\* (?P<mon_name>[A-Za-z<umlauts>]+) then the rest: a shorter name leaves a
\* letter, which nothing after the group matches, so the whole run is taken
MonNameAt(s, p) ==
    LET n == RunLen(s, p, AsciiLetterSet \cup UmlautSet)
    IN  IF n >= 1
        THEN SetMonName(RE_Year(s, p + n), SubSeq(s, p, p + n - 1))
        ELSE NoMatch

\* (?P<d>\d{n})[.\s](?:(?P<mon>\d{1,2})[.]|(?P<mon_name>...)) then the rest
DayWith(s, p, n) ==
    IF /\ p + n <= Len(s)
       /\ \A k \in p..(p + n - 1) : IsDigit(s[k])
       /\ (s[p + n] = "." \/ IsSpace(s[p + n]))
    THEN SetDay(OrElse(MonWith(s, p + n + 1, 2),
                       OrElse(MonWith(s, p + n + 1, 1),
                              MonNameAt(s, p + n + 1))),
                SubSeq(s, p, p + n - 1))
    ELSE NoMatch

\* DATE_RE and everything after it
DATE_RE(s, p) ==
    OrElse(DayWith(s, p, 2), DayWith(s, p, 1))

\* one weekday alternative, \s+, then DATE_RE ...
WeekdayWith(s, p, wd) ==
    LET q == p + Len(wd) + RunLen(s, p + Len(wd), SpaceSet)
    IN  IF LitAt(s, p, wd) /\ q > p + Len(wd)
        THEN SetWeekday(DATE_RE(s, q), wd)
        ELSE NoMatch

\* the pattern anchored at p with the weekdays from the k-th of the list on
RECURSIVE WeekdaysFrom(_, _, _)
WeekdaysFrom(s, p, k) ==
    IF k > Len(WEEKDAYS) THEN NoMatch
    ELSE OrElse(WeekdayWith(s, p, WEEKDAYS[k]), WeekdaysFrom(s, p, k + 1))

\* the search from position p on: the leftmost position where the pattern
\* matches
RECURSIVE SearchFrom(_, _)
SearchFrom(s, p) ==
    IF p > Len(s) THEN NoMatch
    ELSE OrElse(WeekdaysFrom(s, p, 1), SearchFrom(s, p + 1))

\* LINE_RE.search(line)
LINE_RE(s) ==
    SearchFrom(s, 1)

(***************************************************************************)
(* _year_hint                                                              *)
(***************************************************************************)
\* a match of \b(20\d{2})\b at s[p]
YearTokenAt(s, p) ==
    /\ p + 3 <= Len(s)
    /\ WordBoundary(s, p)
    /\ s[p] = "2"
    /\ s[p + 1] = "0"
    /\ IsDigit(s[p + 2])
    /\ IsDigit(s[p + 3])
    /\ WordBoundary(s, p + 4)

\* re.findall(r"\b(20\d{2})\b", line): the matches of one line, left to right
\* (a match never spans a line break, so the lines are searched one by one)
RECURSIVE YearTokens(_, _)
YearTokens(s, p) ==
    IF p > Len(s) THEN <<>>
    ELSE IF YearTokenAt(s, p)
         THEN <<SubSeq(s, p, p + 3)>> \o YearTokens(s, p + 4)
         ELSE YearTokens(s, p + 1)

RECURSIVE AllYearTokens(_, _)
AllYearTokens(text, k) ==
    IF k > Len(text) THEN <<>>
    ELSE YearTokens(text[k], 1) \o AllYearTokens(text, k + 1)

\* _year_hint(text), nowYear being datetime.now(TZ).year
_year_hint(text, nowYear) ==
    LET ys == AllYearTokens(text, 1)
    IN  IF ys # <<>> THEN ToInt(ys[1]) ELSE nowYear

(***************************************************************************)
(* _parse_date and dateparser.parse                                        *)
(***************************************************************************)
\* the German month names and abbreviations dateparser's "de" locale knows
GermanMonths ==
    << <<"j","a","n","u","a","r">>, <<"f","e","b","r","u","a","r">>,
       <<"m","a_uml","r","z">>, <<"a","p","r","i","l">>, <<"m","a","i">>,
       <<"j","u","n","i">>, <<"j","u","l","i">>,
       <<"a","u","g","u","s","t">>,
       <<"s","e","p","t","e","m","b","e","r">>,
       <<"o","k","t","o","b","e","r">>, <<"n","o","v","e","m","b","e","r">>,
       <<"d","e","z","e","m","b","e","r">> >>

GermanMonthAbbr ==
    << <<"j","a","n">>, <<"f","e","b">>, <<"m","a_uml","r">>,
       <<"a","p","r">>, <<"m","a","i">>, <<"j","u","n">>, <<"j","u","l">>,
       <<"a","u","g">>, <<"s","e","p">>, <<"o","k","t">>, <<"n","o","v">>,
       <<"d","e","z">> >>

\* the month a token names, 0 when it names none
MonthOfName(tok) ==
    LET t == LowerStr(tok)
        hits == {k \in 1..12 : GermanMonths[k] = t \/ GermanMonthAbbr[k] = t}
    IN  IF hits = {} THEN 0 ELSE Min(hits)

IsLeap(y) ==
    (y % 4 = 0 /\ y % 100 # 0) \/ y % 400 = 0

DaysInMonth(y, m) ==
    IF m = 2 THEN (IF IsLeap(y) THEN 29 ELSE 28)
    ELSE IF m \in {4, 6, 9, 11} THEN 30 ELSE 31

\* a parsed date; ok = FALSE is dateparser's None
NoDate ==
    [ok |-> FALSE, year |-> 0, month |-> 0, day |-> 0]

\* the tokens of s between the separators "." and " "
RECURSIVE Tokens(_, _)
Tokens(s, cur) ==
    IF s = <<>> THEN (IF cur = <<>> THEN <<>> ELSE <<cur>>)
    ELSE IF Head(s) \in {".", " "}
         THEN (IF cur = <<>> THEN <<>> ELSE <<cur>>) \o Tokens(Tail(s), <<>>)
         ELSE Tokens(Tail(s), cur \o <<Head(s)>>)

AllDigits(tok) ==
    tok # <<>> /\ \A k \in 1..Len(tok) : IsDigit(tok[k])

\* dateparser.parse(s, languages=["de"]) on the two shapes _parse_date builds,
\* "D.M.YYYY" and "D. <month name> YYYY": day first, a date of the calendar
\* or None
DateparserParse(s) ==
    LET toks == Tokens(s, <<>>)
    IN  IF Len(toks) = 3 /\ AllDigits(toks[1]) /\ AllDigits(toks[3])
        THEN LET day   == ToInt(toks[1])
                 month == IF AllDigits(toks[2]) THEN ToInt(toks[2])
                          ELSE MonthOfName(toks[2])
                 year  == ToInt(toks[3])
             IN  IF /\ year >= 1
                    /\ month \in 1..12
                    /\ day >= 1
                    /\ day <= DaysInMonth(year, month)
                 THEN [ok |-> TRUE, year |-> year, month |-> month,
                       day |-> day]
                 ELSE NoDate
        ELSE NoDate

\* a slip: the hint also where the line names its year
HintOnly(y, yh) ==
    IntToStr(yh)

\* f"{y or yh}": the line's own year when group y is set, else the hint
YearOrHint(y, yh) ==
    IF y # None /\ y # <<>> THEN y ELSE IntToStr(yh)

\* _parse_date(d, mon, mon_name, y, yh)
_parse_date(d, mon, mon_name, y, yh) ==
    IF mon_name # None /\ mon_name # <<>>
    THEN DateparserParse(d \o <<".", " ">> \o mon_name \o <<" ">>
                           \o YearOrHint(y, yh))
    ELSE DateparserParse(d \o <<".">> \o (IF mon # None THEN mon ELSE <<>>)
                           \o <<".">> \o YearOrHint(y, yh))

(***************************************************************************)
(* _split_title_place, MESSE_KEYWORDS, _normalize_place                    *)
(***************************************************************************)
Kathedrale ==
    <<"K","a","t","h","e","d","r","a","l","e">>

Kirche ==
    <<"K","i","r","c","h","e">>

Kapelle ==
    <<"K","a","p","e","l","l","e">>

Messe ==
    <<"M","e","s","s","e">>

Eucharistiefeier ==
    <<"E","u","c","h","a","r","i","s","t","i","e","f","e","i","e","r">>

\* (Kathedrale|Kirche|Kapelle|St\.\s[\w<umlauts>.\- ]+)[^,]* matches at s[p]
PlaceTokenAt(s, p) ==
    \/ LitAt(s, p, Kathedrale)
    \/ LitAt(s, p, Kirche)
    \/ LitAt(s, p, Kapelle)
    \/ /\ LitAt(s, p, <<"S","t",".">>)
       /\ p + 4 <= Len(s)
       /\ IsSpace(s[p + 3])
       /\ s[p + 4] \in WordSet \cup {".", "-", " "}

\* m.start() of re.search, 0 when there is no match
PlaceStart(after) ==
    LET hits == {p \in 1..Len(after) : PlaceTokenAt(after, p)}
    IN  IF hits = {} THEN 0 ELSE Min(hits)

\* a slip: the title as stripped, without the "Messe" that stands in for an
\* empty one
SplitWithoutDefault(after) ==
    LET st == PlaceStart(after)
    IN  IF st # 0
        THEN <<Strip(SubSeq(after, 1, st - 1), {" ", "-", "endash", ","}),
               Strip(SubSeq(after, st, Len(after)), {" ", ")"})>>
        ELSE <<Strip(after, SpaceSet), None>>

\* _split_title_place(after): the pair (title, place)
_split_title_place(after) ==
    LET st == PlaceStart(after)
    IN  IF st # 0
        THEN LET place == Strip(SubSeq(after, st, Len(after)), {" ", ")"})
                 title == Strip(SubSeq(after, 1, st - 1),
                                {" ", "-", "endash", ","})
             IN  <<IF title # <<>> THEN title ELSE Messe, place>>
        ELSE <<Strip(after, SpaceSet), None>>

\* \b(Messe|Hl\.\s*Messe|Eucharistiefeier)\b, re.I, matches at s[p]
KeywordAt(s, p) ==
    /\ WordBoundary(s, p)
    /\ \/ LitAtI(s, p, Messe) /\ WordBoundary(s, p + 5)
       \/ /\ LitAtI(s, p, <<"H","l",".">>)
          /\ LET q == p + 3 + RunLen(s, p + 3, SpaceSet)
             IN  LitAtI(s, q, Messe) /\ WordBoundary(s, q + 5)
       \/ LitAtI(s, p, Eucharistiefeier) /\ WordBoundary(s, p + 16)

\* MESSE_KEYWORDS.search(s) is not None
MESSE_KEYWORDS(s) ==
    \E p \in 1..Len(s) : KeywordAt(s, p)

\* PLACE_NORMALIZE, in the order of the dict.  A pattern
\*     \b<lead>\s*St\.?\s*<name>\b      (lead empty: \bSt\.?\s*<name>\b)
\* is written [lead, names, repl], names being the spellings the optional
\* group of <name> allows, the longer (greedy) one first.
PLACE_NORMALIZE ==
    << [lead  |-> Kathedrale,
        names |-> << <<"U","r","s","e","n">>, <<"U","r","s">> >>,
        repl  |-> <<"K","a","t","h","e","d","r","a","l","e"," ","S","t",".",
                    " ","U","r","s","e","n",","," ","S","o","l","o","t","h",
                    "u","r","n">>],
       [lead  |-> <<>>,
        names |-> << <<"M","a","r","i","e","n">> >>,
        repl  |-> <<"S","t","."," ","M","a","r","i","e","n",","," ","S","o",
                    "l","o","t","h","u","r","n">>],
       [lead  |-> <<>>,
        names |-> << <<"N","i","k","l","a","u","s">> >>,
        repl  |-> <<"S","t","."," ","N","i","k","l","a","u","s",","," ","S",
                    "o","l","o","t","h","u","r","n">>],
       [lead  |-> <<>>,
        names |-> << <<"E","u","s","e","b","i","u","s">> >>,
        repl  |-> <<"S","t","."," ","E","u","s","e","b","i","u","s",","," ",
                    "G","r","e","n","c","h","e","n">>],
       [lead  |-> <<>>,
        names |-> << <<"K","l","e","m","e","n","z">>,
                     <<"K","l","e","m","n","z">> >>,
        repl  |-> <<"S","t","."," ","K","l","e","m","e","n","z",","," ","B",
                    "e","t","t","l","a","c","h">>] >>

\* where a match of the rule's pattern starting at s[p] ends (the position
\* after its last character), 0 when the pattern does not match at s[p]
RuleEnd(s, p, rule) ==
    IF ~WordBoundary(s, p) \/ ~LitAtI(s, p, rule.lead) THEN 0
    ELSE LET p1 == IF rule.lead = <<>> THEN p
                   ELSE LET a == p + Len(rule.lead)
                        IN  a + RunLen(s, a, SpaceSet)
         IN  IF ~LitAtI(s, p1, <<"S","t">>) THEN 0
             ELSE LET p2 == p1 + 2
                      p3 == IF p2 <= Len(s) /\ s[p2] = "." THEN p2 + 1 ELSE p2
                      p4 == p3 + RunLen(s, p3, SpaceSet)
                      fits == {k \in DOMAIN rule.names :
                                  /\ LitAtI(s, p4, rule.names[k])
                                  /\ WordBoundary(s, p4 + Len(rule.names[k]))}
                  IN  IF fits = {} THEN 0
                      ELSE p4 + Len(rule.names[Min(fits)])

\* re.sub(pat, repl, s, flags=re.I) from s[p] on: every match, left to right
RECURSIVE ReSub(_, _, _)
ReSub(s, p, rule) ==
    IF p > Len(s) THEN <<>>
    ELSE LET e == RuleEnd(s, p, rule)
         IN  IF e # 0 THEN rule.repl \o ReSub(s, e, rule)
             ELSE <<s[p]>> \o ReSub(s, p + 1, rule)

\* the for loop of _normalize_place over the first k rules
RECURSIVE ApplyRules(_, _)
ApplyRules(s, k) ==
    IF k = 0 THEN s
    ELSE ReSub(ApplyRules(s, k - 1), 1, PLACE_NORMALIZE[k])

\* _normalize_place(s)
_normalize_place(s) ==
    IF s = None \/ s = <<>> THEN s
    ELSE ApplyRules(s, Len(PLACE_NORMALIZE))

(***************************************************************************)
(* datetime: construction, comparison, isoformat in Europe/Zurich          *)
(***************************************************************************)
\* datetime(year, month, day, hh, mm, tzinfo=TZ) of a date of the calendar:
\* the constructor raises ValueError unless 0 <= hh <= 23 and 0 <= mm <= 59
ValidTime(hh, mm) ==
    hh \in 0..23 /\ mm \in 0..59

Datetime(year, month, day, hh, mm, ss) ==
    [year |-> year, month |-> month, day |-> day,
     hour |-> hh, minute |-> mm, second |-> ss]

\* no datetime yet (the local is unassigned)
NoDatetime ==
    [year |-> 0, month |-> 0, day |-> 0, hour |-> 0, minute |-> 0,
     second |-> 0]

\* a <= b for two datetimes of the same tzinfo: the wall-clock fields compared
DtTuple(w) ==
    <<w.year, w.month, w.day, w.hour, w.minute, w.second>>

RECURSIVE TupleLeq(_, _)
TupleLeq(a, b) ==
    IF a = <<>> THEN TRUE
    ELSE IF Head(a) # Head(b) THEN Head(a) < Head(b)
         ELSE TupleLeq(Tail(a), Tail(b))

DtLeq(a, b) ==
    TupleLeq(DtTuple(a), DtTuple(b))

\* day of the week of a date, 0 = Sunday
DayOfWeek(y, m, d) ==
    LET t  == <<0, 3, 2, 5, 0, 3, 5, 1, 4, 6, 2, 4>>
        yy == IF m < 3 THEN y - 1 ELSE y
    IN  (yy + yy \div 4 - yy \div 100 + yy \div 400 + t[m] + d) % 7

LastSunday(y, m) ==
    31 - DayOfWeek(y, m, 31)

\* minutes east of UTC of a wall-clock time in Europe/Zurich (fold = 0):
\* summer time from the last Sunday of March, 03:00 on the wall, up to the
\* last Sunday of October, 03:00 on the wall
UtcOffset(w) ==
    LET t     == <<w.month, w.day, w.hour>>
        from  == <<3, LastSunday(w.year, 3), 3>>
        until == <<10, LastSunday(w.year, 10), 3>>
    IN  IF TupleLeq(from, t) /\ ~TupleLeq(until, t) THEN 120 ELSE 60

Pad(n, w) ==
    ZeroPad(IntToStr(n), w)

\* when.isoformat()
IsoFormat(w) ==
    LET off == UtcOffset(w)
    IN  Pad(w.year, 4) \o <<"-">> \o Pad(w.month, 2) \o <<"-">>
          \o Pad(w.day, 2) \o <<"T">> \o Pad(w.hour, 2) \o <<":">>
          \o Pad(w.minute, 2) \o <<":">> \o Pad(w.second, 2) \o <<"+">>
          \o Pad(off \div 60, 2) \o <<":">> \o Pad(off % 60, 2)

\* ord(c) of the characters an isoformat string holds
CodePoint(c) ==
    IF c \in DigitSet THEN 48 + DigitVal(c)
    ELSE CASE c = "+" -> 43
           [] c = "-" -> 45
           [] c = ":" -> 58
           [] c = "T" -> 84

\* a < b for two str: the first differing character decides, a proper prefix
\* is smaller
RECURSIVE StrLess(_, _)
StrLess(a, b) ==
    IF b = <<>> THEN FALSE
    ELSE IF a = <<>> THEN TRUE
    ELSE IF Head(a) # Head(b) THEN CodePoint(Head(a)) < CodePoint(Head(b))
    ELSE StrLess(Tail(a), Tail(b))

(***************************************************************************)
(* list.sort(key=lambda x: x["start"])                                     *)
(*                                                                         *)
(* The list is sorted together with the ghost origin of each item (the     *)
(* index of its source line): an entry is [item, src].                     *)
(***************************************************************************)
\* a slip: e put before the entries of the same key (an unstable sort)
RECURSIVE InsertBeforeEqual(_, _)
InsertBeforeEqual(e, sorted) ==
    IF sorted = <<>> THEN <<e>>
    ELSE IF ~StrLess(Head(sorted).item.start, e.item.start)
         THEN <<e>> \o sorted
         ELSE <<Head(sorted)>> \o InsertBeforeEqual(e, Tail(sorted))

\* e put into a sorted list behind every entry whose key is not greater
RECURSIVE InsertSorted(_, _)
InsertSorted(e, sorted) ==
    IF sorted = <<>> THEN <<e>>
    ELSE IF StrLess(e.item.start, Head(sorted).item.start)
         THEN <<e>> \o sorted
         ELSE <<Head(sorted)>> \o InsertSorted(e, Tail(sorted))

\* the stable sort of the first k entries
RECURSIVE SortPrefix(_, _)
SortPrefix(entries, k) ==
    IF k = 0 THEN <<>>
    ELSE InsertSorted(entries[k], SortPrefix(entries, k - 1))

SortByStart(entries) ==
    SortPrefix(entries, Len(entries))

(***************************************************************************)
(* The filter and the record of main()'s loop                              *)
(***************************************************************************)
\* a slip: the window without its lower end
NotAfterDay(w, day) ==
    DtLeq(w, Datetime(day.year, day.month, day.day, 23, 59, 59))

\* start <= when <= end, start and end being 00:00:00 and 23:59:59 of day
InWindow(w, day) ==
    LET start == Datetime(day.year, day.month, day.day, 0, 0, 0)
        end   == Datetime(day.year, day.month, day.day, 23, 59, 59)
    IN  DtLeq(start, w) /\ DtLeq(w, end)

\* MESSE_KEYWORDS.search(title) or MESSE_KEYWORDS.search(gd["after"])
PassesKeyword(ttl, after) ==
    MESSE_KEYWORDS(ttl) \/ MESSE_KEYWORDS(after)

\* the dict main() appends
NewItem(ttl, w, loc) ==
    [title    |-> IF ttl # <<>> THEN ttl ELSE Messe,
     start    |-> IsoFormat(w),
     location |-> loc,
     kanton   |-> <<"S","O">>,
     source   |-> <<"k","i","r","c","h","e","n","b","l","a","t","t">>]

\* _parse_date on the groups of a match
ParsedDate(mt, hint) ==
    _parse_date(mt.d, mt.mon, mt.mon_name, mt.y, hint)

\* datetime(dt.year, dt.month, dt.day, hh, mm, tzinfo=TZ)
WhenOf(mt, date) ==
    Datetime(date.year, date.month, date.day, ToInt(mt.h), ToInt(mt.m), 0)

(***************************************************************************)
(* Inputs: the lines a bulletin may hold and the days the script may run   *)
(***************************************************************************)
\* "Sa 13.09.2025 18.30 Vorabendmesse Kathedrale St. Urs, Solothurn": the scenario line of the bulletin: a compound of Messe and a venue
LineVorabend ==
    <<"S","a"," ","1","3",".","0","9",".","2","0","2","5"," ","1","8",".",
      "3","0"," ","V","o","r","a","b","e","n","d","m","e","s","s","e"," ",
      "K","a","t","h","e","d","r","a","l","e"," ","S","t","."," ","U","r",
      "s",","," ","S","o","l","o","t","h","u","r","n">>

\* "Sa 13.09. 9.00 Hl. Messe, St. Marien": no year in the date fragment
LineNoYear ==
    <<"S","a"," ","1","3",".","0","9","."," ","9",".","0","0"," ","H","l",
      "."," ","M","e","s","s","e",","," ","S","t","."," ","M","a","r","i",
      "e","n">>

\* "Sa 13.09.2025 18.30 Kirche Konzert": a concert: the body starts with a venue word and holds no keyword
LineKircheKonzert ==
    <<"S","a"," ","1","3",".","0","9",".","2","0","2","5"," ","1","8",".",
      "3","0"," ","K","i","r","c","h","e"," ","K","o","n","z","e","r","t">>

\* "Sa 13.09.2025 25.00 Messe": matches the grammar with an hour no clock shows
LineHour25 ==
    <<"S","a"," ","1","3",".","0","9",".","2","0","2","5"," ","2","5",".",
      "0","0"," ","M","e","s","s","e">>

\* "Sa 13 Sepp 2025 18.30 Messe": a misspelled month name
LineSepp ==
    <<"S","a"," ","1","3"," ","S","e","p","p"," ","2","0","2","5"," ","1",
      "8",".","3","0"," ","M","e","s","s","e">>

\* "Di 31.09.2025 18.30 Messe": a day the month does not have
LineSept31 ==
    <<"D","i"," ","3","1",".","0","9",".","2","0","2","5"," ","1","8",".",
      "3","0"," ","M","e","s","s","e">>

\* "Kirchenblatt 2026": a heading: no schedule line, but a year token
LineHeader ==
    <<"K","i","r","c","h","e","n","b","l","a","t","t"," ","2","0","2","6">>

\* "Sa 13.09.2025 18.30 Uhr Messe - Kapelle)": unit marker, dash before the venue, closing parenthesis
LineKapelle ==
    <<"S","a"," ","1","3",".","0","9",".","2","0","2","5"," ","1","8",".",
      "3","0"," ","U","h","r"," ","M","e","s","s","e"," ","-"," ","K","a",
      "p","e","l","l","e",")">>

\* "Sa 13.09.2025 18.30 Konzert": a concert, no venue
LineKonzert ==
    <<"S","a"," ","1","3",".","0","9",".","2","0","2","5"," ","1","8",".",
      "3","0"," ","K","o","n","z","e","r","t">>

\* "So 26.10. 3.00 Eucharistiefeier": the day summer time ends, after the change, no year
LineOct3 ==
    <<"S","o"," ","2","6",".","1","0","."," ","3",".","0","0"," ","E","u",
      "c","h","a","r","i","s","t","i","e","f","e","i","e","r">>

\* "So 26 Okt 2025 2:30 messe": the same day before the change, month by name, lower-case keyword
LineOkt230 ==
    <<"S","o"," ","2","6"," ","O","k","t"," ","2","0","2","5"," ","2",":",
      "3","0"," ","m","e","s","s","e">>

Lines ==
    {LineVorabend, LineNoYear, LineKircheKonzert, LineHour25, LineSepp,
     LineSept31, LineHeader, LineKapelle, LineKonzert, LineOct3, LineOkt230}

\* LINE_RE.search of the lines a text may hold (those of a bulletin, and the
\* blank line that "\n" + ... puts first), each searched once
KnownMatches ==
    [l \in {Strip(x, SpaceSet) : x \in Lines \cup {<<>>}} |-> LINE_RE(l)]

\* m = LINE_RE.search(line)
LineSearch(line) ==
    KnownMatches[line]

\* the longest bulletin, in lines
MaxLines ==
    3

RECURSIVE SeqsUpTo(_, _)
SeqsUpTo(S, n) ==
    IF n = 0 THEN {<<>>}
    ELSE LET shorter == SeqsUpTo(S, n - 1)
         IN  shorter \cup {Append(q, x) : q \in shorter, x \in S}

\* the extracted text of a bulletin, as its lines
Documents ==
    SeqsUpTo(Lines, MaxLines)

\* datetime.now(TZ).date(): the scenario's Saturday, and the Sunday summer
\* time ends
Days ==
    {[year |-> 2025, month |-> 9, day |-> 13],
     [year |-> 2025, month |-> 10, day |-> 26]}

(***************************************************************************)
(* State                                                                   *)
(***************************************************************************)
VARIABLES
    all_text,   \* the text fetched so far, as the lines splitlines() gives
    today,      \* datetime.now(TZ).date()
    yh,         \* the year hint
    items,      \* the list of records
    origin,     \* ghost: origin[k] is the index of the line items[k] is from
    idx,        \* the index in all_text of the line the loop reads next
    pc,         \* "fetch", "hint", "scan", "done", or "raised" (ValueError)
    m,          \* locals of the loop: the match (its groupdict), ...
    dt,         \* ... the parsed date, ...
    when,       \* ... the timestamp, ...
    title,      \* ... and the title and the place
    place,
    call        \* a call of the helpers on a body of its own (CallSpec)

vars ==
    <<all_text, today, yh, items, origin, idx, pc, m, dt, when, title, place,
      call>>

locals ==
    <<m, dt, when, title, place>>

\* no call of the helpers outside main()
NoCall ==
    [pc |-> "none", after |-> None, title |-> None, place |-> None,
     once |-> None, twice |-> None, emitted |-> <<>>]

Init ==
    /\ call = NoCall
    /\ all_text = <<>>
    /\ today \in Days
    /\ yh = 0
    /\ items = <<>>
    /\ origin = <<>>
    /\ idx = 1
    /\ pc = "fetch"
    /\ m = NoMatch
    /\ dt = NoDate
    /\ when = NoDatetime
    /\ title = None
    /\ place = None

(***************************************************************************)
(* main(): the fetch                                                       *)
(***************************************************************************)
\* all_text += "\n" + _text_from_pdf(r.content)
FetchOk ==
    /\ pc = "fetch"
    /\ \E doc \in Documents : all_text' = all_text \o <<<<>>>> \o doc
    /\ pc' = "hint"
    /\ UNCHANGED call
    /\ UNCHANGED <<today, yh, items, origin, idx, locals>>

\* except Exception: the text stays empty
FetchError ==
    /\ pc = "fetch"
    /\ pc' = "hint"
    /\ UNCHANGED call
    /\ UNCHANGED <<all_text, today, yh, items, origin, idx, locals>>

\* yh = _year_hint(all_text); today, start, end; items = []
YearHint ==
    /\ pc = "hint"
    /\ yh' = _year_hint(all_text, today.year)
    /\ items' = <<>>
    /\ origin' = <<>>
    /\ idx' = 1
    /\ pc' = "scan"
    /\ UNCHANGED call
    /\ UNCHANGED <<all_text, today, locals>>

(***************************************************************************)
(* main(): one iteration of the loop over the lines, by the way it ends    *)
(***************************************************************************)
InLoop ==
    pc = "scan" /\ idx <= Len(all_text)

\* line = raw.strip()
Line ==
    Strip(all_text[idx], SpaceSet)

\* if not line: continue
SkipBlank ==
    /\ InLoop
    /\ Line = <<>>
    /\ idx' = idx + 1
    /\ UNCHANGED call
    /\ UNCHANGED <<all_text, today, yh, items, origin, pc, locals>>

\* m = LINE_RE.search(line); if not m: continue
NoLineMatch ==
    /\ InLoop
    /\ Line # <<>>
    /\ LET mt == LineSearch(Line)
       IN  /\ ~mt.ok
           /\ m' = mt
    /\ idx' = idx + 1
    /\ UNCHANGED call
    /\ UNCHANGED <<all_text, today, yh, items, origin, pc, dt, when, title,
                   place>>

\* a slip: break where the code has continue
UnresolvableDateEndsLoop ==
    /\ InLoop
    /\ Line # <<>>
    /\ LET mt   == LineSearch(Line)
           date == ParsedDate(mt, yh)
       IN  /\ mt.ok
           /\ ~date.ok
           /\ m' = mt
           /\ dt' = date
    /\ idx' = Len(all_text) + 1
    /\ UNCHANGED call
    /\ UNCHANGED <<all_text, today, yh, items, origin, pc, when, title,
                   place>>

\* dt = _parse_date(...); if not dt: continue
UnresolvableDate ==
    /\ InLoop
    /\ Line # <<>>
    /\ LET mt   == LineSearch(Line)
           date == ParsedDate(mt, yh)
       IN  /\ mt.ok
           /\ ~date.ok
           /\ m' = mt
           /\ dt' = date
    /\ idx' = idx + 1
    /\ UNCHANGED call
    /\ UNCHANGED <<all_text, today, yh, items, origin, pc, when, title,
                   place>>

\* when = datetime(...) raises ValueError, which nothing catches
RaiseValueError ==
    /\ InLoop
    /\ Line # <<>>
    /\ LET mt   == LineSearch(Line)
           date == ParsedDate(mt, yh)
       IN  /\ mt.ok
           /\ date.ok
           /\ ~ValidTime(ToInt(mt.h), ToInt(mt.m))
           /\ m' = mt
           /\ dt' = date
    /\ pc' = "raised"
    /\ UNCHANGED call
    /\ UNCHANGED <<all_text, today, yh, items, origin, idx, when, title,
                   place>>

\* if not (start <= when <= end): continue
OutOfWindow ==
    /\ InLoop
    /\ Line # <<>>
    /\ LET mt   == LineSearch(Line)
           date == ParsedDate(mt, yh)
           w    == WhenOf(mt, date)
       IN  /\ mt.ok
           /\ date.ok
           /\ ValidTime(ToInt(mt.h), ToInt(mt.m))
           /\ ~InWindow(w, today)
           /\ m' = mt
           /\ dt' = date
           /\ when' = w
    /\ idx' = idx + 1
    /\ UNCHANGED call
    /\ UNCHANGED <<all_text, today, yh, items, origin, pc, title, place>>

\* if not (MESSE_KEYWORDS.search(title) or ...): continue
NoKeywordMatch ==
    /\ InLoop
    /\ Line # <<>>
    /\ LET mt   == LineSearch(Line)
           date == ParsedDate(mt, yh)
           w    == WhenOf(mt, date)
           tp   == _split_title_place(mt.after)
       IN  /\ mt.ok
           /\ date.ok
           /\ ValidTime(ToInt(mt.h), ToInt(mt.m))
           /\ InWindow(w, today)
           /\ ~PassesKeyword(tp[1], mt.after)
           /\ m' = mt
           /\ dt' = date
           /\ when' = w
           /\ title' = tp[1]
           /\ place' = tp[2]
    /\ idx' = idx + 1
    /\ UNCHANGED call
    /\ UNCHANGED <<all_text, today, yh, items, origin, pc>>

\* a slip: a record the list already holds is not appended again
AppendUnlessPresent ==
    /\ InLoop
    /\ Line # <<>>
    /\ LET mt   == LineSearch(Line)
           date == ParsedDate(mt, yh)
           w    == WhenOf(mt, date)
           tp   == _split_title_place(mt.after)
           loc  == _normalize_place(tp[2])
           new  == NewItem(tp[1], w, loc)
       IN  /\ mt.ok
           /\ date.ok
           /\ ValidTime(ToInt(mt.h), ToInt(mt.m))
           /\ InWindow(w, today)
           /\ PassesKeyword(tp[1], mt.after)
           /\ m' = mt
           /\ dt' = date
           /\ when' = w
           /\ title' = tp[1]
           /\ place' = loc
           /\ IF \E k \in 1..Len(items) : items[k] = new
              THEN UNCHANGED <<items, origin>>
              ELSE /\ items' = Append(items, new)
                   /\ origin' = Append(origin, idx)
    /\ idx' = idx + 1
    /\ UNCHANGED call
    /\ UNCHANGED <<all_text, today, yh, pc>>

\* place = _normalize_place(place); items.append({...})
AppendItem ==
    /\ InLoop
    /\ Line # <<>>
    /\ LET mt   == LineSearch(Line)
           date == ParsedDate(mt, yh)
           w    == WhenOf(mt, date)
           tp   == _split_title_place(mt.after)
           loc  == _normalize_place(tp[2])
       IN  /\ mt.ok
           /\ date.ok
           /\ ValidTime(ToInt(mt.h), ToInt(mt.m))
           /\ InWindow(w, today)
           /\ PassesKeyword(tp[1], mt.after)
           /\ m' = mt
           /\ dt' = date
           /\ when' = w
           /\ title' = tp[1]
           /\ place' = loc
           /\ items' = Append(items, NewItem(tp[1], w, loc))
           /\ origin' = Append(origin, idx)
    /\ idx' = idx + 1
    /\ UNCHANGED call
    /\ UNCHANGED <<all_text, today, yh, pc>>

(***************************************************************************)
(* main(): items.sort(key=...); json.dump(items, f)                        *)
(***************************************************************************)
Entries ==
    [k \in 1..Len(items) |-> [item |-> items[k], src |-> origin[k]]]

SortAndWrite ==
    /\ pc = "scan"
    /\ idx > Len(all_text)
    /\ LET sorted == SortByStart(Entries)
       IN  /\ items' = [k \in 1..Len(sorted) |-> sorted[k].item]
           /\ origin' = [k \in 1..Len(sorted) |-> sorted[k].src]
    /\ pc' = "done"
    /\ UNCHANGED call
    /\ UNCHANGED <<all_text, today, yh, idx, locals>>

Next ==
    \/ FetchOk
    \/ FetchError
    \/ YearHint
    \/ SkipBlank
    \/ NoLineMatch
    \/ UnresolvableDate
    \/ RaiseValueError
    \/ OutOfWindow
    \/ NoKeywordMatch
    \/ AppendItem
    \/ SortAndWrite

Spec ==
    Init /\ [][Next]_vars

(***************************************************************************)
(* CallSpec: _split_title_place, the keyword filter and _normalize_place   *)
(* called as the loop calls them, on bodies of a wider range than the      *)
(* bulletins above hold                                                    *)
(***************************************************************************)
\* what a body may start with: "", "Messe ", "- Messe, ", "Vorabendmesse ",
\* "Konzert <en dash> ", "Hl. Messe (", "- "
BodyLeads ==
    {<<>>,
     <<"-"," ">>,
     <<"M","e","s","s","e"," ">>,
     <<"-"," ","M","e","s","s","e",","," ">>,
     <<"V","o","r","a","b","e","n","d","m","e","s","s","e"," ">>,
     <<"K","o","n","z","e","r","t"," ","endash"," ">>,
     <<"H","l","."," ","M","e","s","s","e"," ","(">>}

\* the venue it may name: none, a venue word, a spelling a rule rewrites, a
\* canonical name, "St." without the blank the splitter wants
BodyVenues ==
    {<<>>,
     <<"K","i","r","c","h","e">>,
     <<"K","a","p","e","l","l","e">>,
     <<"K","a","t","h","e","d","r","a","l","e"," ","S","t","."," ","U","r","s">>,
     <<"K","a","t","h","e","d","r","a","l","e"," ","S","t","."," ","U","r","s",
       "e","n",","," ","S","o","l","o","t","h","u","r","n">>,
     <<"S","t","."," ","M","a","r","i","e","n">>,
     <<"S","t","."," ","M","a","r","i","e","n",","," ","S","o","l","o","t","h",
       "u","r","n">>,
     <<"K","i","r","c","h","e"," ","s","t"," ","k","l","e","m","n","z">>,
     <<"S","t",".","N","i","k","l","a","u","s">>}

\* what may follow: "", ")", ", Grenchen", " Bettlach )"
BodyTrails ==
    {<<>>,
     <<")">>,
     <<","," ","G","r","e","n","c","h","e","n">>,
     <<" ","B","e","t","t","l","a","c","h"," ",")">>}

\* group "after" of a match: not empty, and no blank at either end (the line
\* was stripped, and \s+ before the group is greedy)
Bodies ==
    {Strip(a \o b \o c, SpaceSet) :
        a \in BodyLeads, b \in BodyVenues, c \in BodyTrails} \ {<<>>}

\* the Saturday of the scenario, 18:30
ScenarioDay ==
    [year |-> 2025, month |-> 9, day |-> 13]

ScenarioWhen ==
    Datetime(ScenarioDay.year, ScenarioDay.month, ScenarioDay.day, 18, 30, 0)

CallInit ==
    /\ \E b \in Bodies : call = [NoCall EXCEPT !.pc = "start", !.after = b]
    /\ all_text = <<>>
    /\ today = ScenarioDay
    /\ yh = 0
    /\ items = <<>>
    /\ origin = <<>>
    /\ idx = 1
    /\ pc = "fetch"
    /\ m = NoMatch
    /\ dt = NoDate
    /\ when = NoDatetime
    /\ title = None
    /\ place = None

main_vars ==
    <<all_text, today, yh, items, origin, idx, pc, m, dt, when, title, place>>

\* title, place = _split_title_place(gd["after"])
CallSplit ==
    /\ call.pc = "start"
    /\ LET tp == _split_title_place(call.after)
       IN  call' = [call EXCEPT !.pc = "split", !.title = tp[1],
                                !.place = tp[2]]
    /\ UNCHANGED main_vars

\* place = _normalize_place(place)
CallNormalize ==
    /\ call.pc = "split"
    /\ call' = [call EXCEPT !.pc = "normalized",
                            !.once = _normalize_place(call.place)]
    /\ UNCHANGED main_vars

\* the normalizer once more, on its own result
CallNormalizeAgain ==
    /\ call.pc = "normalized"
    /\ call' = [call EXCEPT !.pc = "renormalized",
                            !.twice = _normalize_place(call.once)]
    /\ UNCHANGED main_vars

\* the keyword filter, and the record appended when it passes
CallEmit ==
    /\ call.pc = "normalized"
    /\ PassesKeyword(call.title, call.after)
    /\ call' = [call EXCEPT !.pc = "emitted",
                            !.emitted = <<NewItem(call.title, ScenarioWhen,
                                                  call.once)>>]
    /\ UNCHANGED main_vars

CallNext ==
    \/ CallSplit
    \/ CallNormalize
    \/ CallNormalizeAgain
    \/ CallEmit

CallSpec ==
    CallInit /\ [][CallNext]_vars

(***************************************************************************)
(* Properties.  A record's start is read back from its text, and a record  *)
(* is traced to its line by origin.                                        *)
(***************************************************************************)
\* the number the characters p..q of an isoformat timestamp show
Field(s, p, q) ==
    ToInt(SubSeq(s, p, q))

\* the date a timestamp shows
StartDate(s) ==
    [year |-> Field(s, 1, 4), month |-> Field(s, 6, 7), day |-> Field(s, 9, 10)]

\* the day a timestamp shows, as a number that grows with the date (the days
\* of a calendar of 31-day months), and its second of that day
StartDay(s) ==
    (Field(s, 1, 4) * 12 + Field(s, 6, 7)) * 31 + Field(s, 9, 10)

StartSecond(s) ==
    (Field(s, 12, 13) * 60 + Field(s, 15, 16)) * 60 + Field(s, 18, 19)

\* the wall-clock time of a is not later than that of b
NotLater(a, b) ==
    \/ StartDay(a) < StartDay(b)
    \/ StartDay(a) = StartDay(b) /\ StartSecond(a) <= StartSecond(b)

\* the line items[k] is from, as the loop saw it
SourceLine(k) ==
    Strip(all_text[origin[k]], SpaceSet)

\* the date of line j as the loop resolves it
ResolvedDate(j) ==
    ParsedDate(LineSearch(Strip(all_text[j], SpaceSet)), yh)

\* line j is recognized and its date resolves
Resolves(j) ==
    /\ LineSearch(Strip(all_text[j], SpaceSet)).ok
    /\ ResolvedDate(j).ok

\* a resolved date is the day the script runs for
OnTargetDay(date) ==
    /\ date.year = today.year
    /\ date.month = today.month
    /\ date.day = today.day

\* C1: every record's start is a wall-clock time from 00:00:00 to 23:59:59 of
\* the target day, and no line whose resolved date is another day has a record
C1_StartWithinTargetDay ==
    \A k \in 1..Len(items) :
        /\ StartDate(items[k].start) = today
        /\ Field(items[k].start, 12, 13) \in 0..23
        /\ Field(items[k].start, 15, 16) \in 0..59
        /\ Field(items[k].start, 18, 19) \in 0..59
        /\ Resolves(origin[k])
        /\ OnTargetDay(ResolvedDate(origin[k]))

\* the scan is over, it kept a record, and it passed over a line of another
\* day that holds a keyword
C1_Witness ==
    /\ pc = "done"
    /\ items # <<>>
    /\ \E j \in 1..Len(all_text) :
          /\ Resolves(j)
          /\ ~OnTargetDay(ResolvedDate(j))
          /\ MESSE_KEYWORDS(all_text[j])
          /\ \A k \in 1..Len(items) : origin[k] # j

\* C4: once the lines are processed and the list sorted, the records are in
\* non-decreasing order of start, and records of equal start are in the order
\* of their lines
C4_SortedAndStable ==
    pc = "done" =>
        \A k, l \in 1..Len(items) :
            k < l =>
                /\ NotLater(items[k].start, items[l].start)
                /\ items[k].start = items[l].start => origin[k] < origin[l]

\* the sort moved a record in front of one from an earlier line, and kept two
\* different records of one start in the order of their lines
C4_Witness ==
    /\ pc = "done"
    /\ \E k, l \in 1..Len(items) : k < l /\ origin[k] > origin[l]
    /\ \E k, l \in 1..Len(items) :
          /\ k < l
          /\ items[k].start = items[l].start
          /\ items[k] # items[l]

\* s holds the letters of w somewhere, in either case
HoldsWord(s, w) ==
    \E p \in 1..Len(s) : LitAtI(s, p, w)

\* C2: every record is from a line whose text holds a liturgical keyword
\* (Messe, Hl. Messe, Eucharistiefeier, in either case): a line without one,
\* a concert with or without a venue word, has no record
C2_KeywordInSourceLine ==
    \A k \in 1..Len(items) :
        \/ HoldsWord(SourceLine(k), Messe)
        \/ HoldsWord(SourceLine(k), Eucharistiefeier)

\* C3: no exception leaves the loop: a line with an hour of 24..99 or a minute
\* of 60..99 is skipped like any other malformed line
C3_NoExceptionPropagates ==
    pc # "raised"

\* "Vorabendmesse"
ScenarioTitle ==
    <<"V","o","r","a","b","e","n","d","m","e","s","s","e">>

\* "Kathedrale St. Ursen, Solothurn"
ScenarioLocation ==
    <<"K","a","t","h","e","d","r","a","l","e"," ","S","t","."," ","U","r",
      "s","e","n",","," ","S","o","l","o","t","h","u","r","n">>

\* "2025-09-13T18:30:00+02:00"
ScenarioStart ==
    <<"2","0","2","5","-","0","9","-","1","3","T","1","8",":","3","0",":",
      "0","0","+","0","2",":","0","0">>

\* C5: the scenario line alone, on 2025-09-13, gives exactly one record, of
\* title "Vorabendmesse", location "Kathedrale St. Ursen, Solothurn" and start
\* 2025-09-13T18:30:00+02:00
C5_ScenarioEvent ==
    (pc = "done" /\ today = ScenarioDay /\ all_text = <<<<>>, LineVorabend>>)
        => /\ Len(items) = 1
           /\ items[1].title = ScenarioTitle
           /\ items[1].location = ScenarioLocation
           /\ items[1].start = ScenarioStart

\* where the text holds a token of the form 20dd: <<line, column>>
YearTokenPlaces ==
    UNION {{<<k, p>> : p \in {q \in 1..Len(all_text[k]) :
                                 YearTokenAt(all_text[k], q)}} :
           k \in 1..Len(all_text)}

\* the first such token of the text as a number, the current year without one
FirstYearToken ==
    IF YearTokenPlaces = {} THEN today.year
    ELSE LET first == CHOOSE a \in YearTokenPlaces :
                          \A b \in YearTokenPlaces :
                              \/ a[1] < b[1]
                              \/ a[1] = b[1] /\ a[2] <= b[2]
         IN  Field(all_text[first[1]], first[2], first[2] + 3)

\* C6: the year of a resolved date is the year the line's date fragment names
\* and, without one, the hint; the hint is the first 20dd token of the whole
\* text, or the current year, and is the same for every line of the loop
C6_YearFromLineElseHint ==
    /\ pc \in {"scan", "done", "raised"} => yh = FirstYearToken
    /\ (m.ok /\ dt.ok) =>
           dt.year = IF m.y # None THEN ToInt(m.y) ELSE yh

\* the loop resolved a date without a year by a hint that a heading gave and
\* that is not the current year, after a line that names another year itself
C6_Witness ==
    /\ pc = "scan"
    /\ m.ok
    /\ dt.ok
    /\ m.y = None
    /\ dt.year = yh
    /\ yh # today.year
    /\ \E j \in 1..(idx - 2) :
          /\ Resolves(j)
          /\ LineSearch(Strip(all_text[j], SpaceSet)).y # None
          /\ ResolvedDate(j).year # yh

\* line j is recognized and its date does not resolve
Unresolvable(j) ==
    /\ LineSearch(Strip(all_text[j], SpaceSet)).ok
    /\ ~ResolvedDate(j).ok

\* C7: the iteration for a recognized line whose date does not resolve adds no
\* record and raises nothing, and the loop goes on with the next line
C7_UnresolvableLineSkipped ==
    [][(InLoop /\ Unresolvable(idx))
          => (items' = items /\ pc' = "scan" /\ idx' = idx + 1)]_vars

\* the scan is over; it met a misspelled month name and a day its month does
\* not have, and kept a record from a line after both
C7_Witness ==
    /\ pc = "done"
    /\ \E i, j \in 1..Len(all_text) :
          /\ Unresolvable(i)
          /\ LineSearch(Strip(all_text[i], SpaceSet)).mon_name # None
          /\ Unresolvable(j)
          /\ LineSearch(Strip(all_text[j], SpaceSet)).mon_name = None
          /\ \E k \in 1..Len(items) : origin[k] > i /\ origin[k] > j

\* line j is one the loop accepts: it matches the grammar, its date and time
\* give a timestamp of the target day, and it passes the keyword filter
Accepted(j) ==
    LET mt   == LineSearch(Strip(all_text[j], SpaceSet))
        date == ParsedDate(mt, yh)
    IN  /\ mt.ok
        /\ date.ok
        /\ ValidTime(ToInt(mt.h), ToInt(mt.m))
        /\ InWindow(WhenOf(mt, date), today)
        /\ PassesKeyword(_split_title_place(mt.after)[1], mt.after)

\* the record of an accepted line
RecordOf(j) ==
    LET mt == LineSearch(Strip(all_text[j], SpaceSet))
        tp == _split_title_place(mt.after)
    IN  NewItem(tp[1], WhenOf(mt, ParsedDate(mt, yh)),
                _normalize_place(tp[2]))

\* C10: the list holds exactly one record for each accepted line among the
\* lines the loop has passed, all of them once the scan is over, and no other
\* record; during the scan the records are in the order of their lines and the
\* list changes by appends only; the sort keeps every record
C10_OneRecordPerAcceptedLine ==
    /\ [](/\ Len(origin) = Len(items)
          /\ \A k \in 1..Len(items) :
                /\ origin[k] \in 1..Len(all_text)
                /\ Accepted(origin[k])
                /\ items[k] = RecordOf(origin[k])
          /\ \A k, l \in 1..Len(items) : k # l => origin[k] # origin[l]
          /\ {origin[k] : k \in 1..Len(items)}
                = {j \in 1..(idx - 1) : Accepted(j)}
          /\ pc = "done" => idx = Len(all_text) + 1
          /\ pc # "done" =>
                \A k, l \in 1..Len(items) : k < l => origin[k] < origin[l])
    /\ [][(pc = "scan" /\ pc' = "scan")
             => \/ items' = items
                \/ \E x \in {RecordOf(idx)} : items' = Append(items, x)]_vars

\* the scan is over: two lines of the same text have a record each, and a line
\* in between has none
C10_Witness ==
    /\ pc = "done"
    /\ \E k, l \in 1..Len(items) :
          /\ k < l
          /\ items[k] = items[l]
          /\ \E j \in 1..Len(all_text) :
                origin[k] < j /\ j < origin[l] /\ ~Accepted(j)

(***************************************************************************)
(* Properties of the helpers, under CallSpec                               *)
(***************************************************************************)
\* s without the characters of chars at its two ends
Trimmed(s, chars) ==
    LET keep == {p \in 1..Len(s) : s[p] \notin chars}
    IN  IF keep = {} THEN <<>>
        ELSE SubSeq(s, CHOOSE p \in keep : \A q \in keep : p <= q,
                       CHOOSE p \in keep : \A q \in keep : q <= p)

\* s without the characters of chars at its end
TrimmedRight(s, chars) ==
    LET keep == {p \in 1..Len(s) : s[p] \notin chars}
    IN  IF keep = {} THEN <<>>
        ELSE SubSeq(s, 1, CHOOSE p \in keep : \A q \in keep : q <= p)

\* the body of the call before its indicator token, and from the token on
BeforeToken ==
    SubSeq(call.after, 1, PlaceStart(call.after) - 1)

FromToken ==
    SubSeq(call.after, PlaceStart(call.after), Len(call.after))

\* the call has split its body
HasSplit ==
    call.pc \in {"split", "normalized", "renormalized", "emitted"}

\* what holds of the title with or without a token, and of the record
TitleNeverEmpty ==
    /\ HasSplit =>
          /\ call.title # <<>>
          /\ call.title # None
          /\ (call.place = None) <=> (PlaceStart(call.after) = 0)
          /\ PlaceStart(call.after) = 0 => call.title = call.after
    /\ call.pc = "emitted" =>
          /\ call.emitted[1].title = call.title
          /\ (call.emitted[1].location = None) <=> (PlaceStart(call.after) = 0)

CanonicalPlaces ==
    {PLACE_NORMALIZE[i].repl : i \in 1..Len(PLACE_NORMALIZE)}

\* C9: _normalize_place gives for its own result that result again; it
\* returns a canonical name of the table, a string no rule matches and an
\* absent location as they are
C9_NormalizeIdempotent ==
    /\ call.pc = "renormalized" => call.twice = call.once
    /\ (call.pc \in {"normalized", "renormalized", "emitted"}
          /\ (call.place \in CanonicalPlaces \/ call.place = None))
         => call.once = call.place

=============================================================================
